---- MODULE Spec2Model ----
(***************************************************************************)
(* Problem-directory manager of libreport (src/lib/dump_dir.c): the        *)
(* symlink lock protocol and the create / open / close / delete lifecycle  *)
(* of one problem directory shared by several processes.  Every system     *)
(* call that touches the directory is one atomic step of one process.      *)
(***************************************************************************)
EXTENDS Integers, FiniteSets, Sequences, TLC

\* ------------------------------------------------------------- bounds
\* Number of processes that use the directory.
NProcs == 2
\* Number of directory inodes the path may name over a run (mkdir calls
\* that create a directory).
MaxDirs == 2

\* ---------------------------------------------------------- constants
SYMLINK_RETRY_USLEEP == 10000
WAIT_FOR_OTHER_PROCESS_USLEEP == 500000
CREATE_LOCK_USLEEP == 10000
NO_TIME_FILE_USLEEP == 50000
NO_TIME_FILE_COUNT == 10
RMDIR_FAIL_USLEEP == 10000
RMDIR_FAIL_COUNT == 50

Procs == 1..NProcs
Dirs == 1..MaxDirs

\* The pid of process p, as written into .lock by sprintf("%lu", getpid()).
Pid(p) == p
\* Target text of .lock: 0 stands for "no .lock", a positive number for the
\* decimal text of that pid, Junk for text that is not a decimal number.
NoLock == 0
Junk == 0 - 1
\* A pid that names no running process (a locker that died earlier).
DeadPid == NProcs + 1

\* Items of the directory and the states of an item file.
FILENAME_TIME == "time"
FILENAME_REPORTED_TO == "reported_to"
Items == {FILENAME_TIME, FILENAME_REPORTED_TO}
LockName == ".lock"
\* Content of an item: absent, holding well-formed data, holding data that
\* does not parse, or just created (empty) by process p and not yet written.
Absent == 0
Valid == 1
Corrupt == 2
EmptyBy(p) == 2 + p
Contents == {Absent, Valid, Corrupt} \cup {EmptyBy(p) : p \in Procs}

VARIABLES
    pathDir,    \* inode the directory path names, 0 when it names nothing
    ndirs,      \* number of directory inodes made so far
    linked,     \* linked[d]: inode d is still in the namespace (not rmdir'ed)
    lock,       \* lock[d]: target of d/.lock, NoLock when there is none
    files,      \* files[d][n]: content of item n of d
    alive,      \* alive[p]: /proc/<pid of p> exists
    access,     \* access[p]: "rw", "ro", or "noread" (open() succeeded,
                \* but p may not write and faccessat(R_OK), which asks with
                \* the real ids, fails): what p may do in the directory
    role,       \* role[p]: which calls the caller running in p makes
    proc,       \* proc[p]: the handle of p and the locals of the call p is in
    free,       \* free[p]: since p's dd_opendir began, .lock was at some
                \* moment not held by a live peer
    item,       \* the file of one item, byte by byte (see NoItem)
    res         \* what the last call on that item returned (see NoRes)

\* proc[p] is a record:
\*   pc                where p is inside the manager
\*   dd_fd             dd->dd_fd, the inode the handle refers to (0: no handle)
\*   locked            dd->locked
\*   sleep_usec        dd_lock's argument (0 outside dd_lock)
\*   count             dd_lock's counter of time-file misses left
\*   dontwait          flags & DD_DONT_WAIT_FOR_LOCK
\*   readonly          flags & DD_OPEN_READONLY
\*   pid_buf           what readlinkat read last
\*   cnt               dd_delete's counter of rmdir attempts left
\*   todo              entries readdir still has to return
\*   unlink_lock_file  of delete_file_dir
\*   name              item being saved
\*   ret               result of the last call that returned
\*   nacq              symlinks created by the running dd_lock call
\*   dd_time           dd->dd_time
\*   mode              dd->mode

fsvars == <<pathDir, ndirs, linked, lock, files>>
envvars == <<alive, access, role>>
textvars == <<item, res>>
vars == <<pathDir, ndirs, linked, lock, files, alive, access, role, proc, free,
          item, res>>

\* ------------------------------------------------------------ helpers

\* isdigit_str on a .lock target: the text consists of decimal digits only.
isdigit_str(t) == t > 0

\* Mutants of proc_exists: every decimal pid is taken for a live process;
\* no pid is.
proc_exists_any_pid(t) == isdigit_str(t)
proc_exists_never(t) == FALSE

\* access("/proc/<pid>", F_OK) == 0
proc_exists(t) == t \in Procs /\ alive[t]

\* Mutant of parse_time_file_at: every directory passes for a problem
\* directory.
parse_time_file_at_any(d) == TRUE

\* parse_time_file_at(dd_fd, "time") >= 0: the file opens and parses.
parse_time_file_at(d) == files[d][FILENAME_TIME] = Valid

\* What parse_time_file_at(dd_fd, "time") returns: the time stamp of a
\* well-formed file (all of them stand for one value here), else -1.
TimeStampOf(c) == IF c = Valid THEN 1 ELSE 0 - 1
time_value(d) == TimeStampOf(files[d][FILENAME_TIME])

\* Mutants of IsOpenCaller: the time file is never looked at; it is looked
\* at for every caller.
IsOpenCaller_always(usec) == TRUE
\* Mutant of IsOpenCaller: the time file is never looked at.
IsOpenCaller_never(usec) == FALSE

\* The test of dd_lock that tells a call from dd_opendir from one of dd_create.
IsOpenCaller(usec) == usec = WAIT_FOR_OTHER_PROCESS_USLEEP

\* Mutants of GiveUpNoTime: "count-- == 0"; the flag is not looked at.
GiveUpNoTime_postdecrement(c, dw) == (c = 0) \/ dw
GiveUpNoTime_noflag(c, dw) == c - 1 = 0

\* "--count == 0 || flags & DD_DONT_WAIT_FOR_LOCK" of dd_lock.
GiveUpNoTime(c, dw) == (c - 1 = 0) \/ dw

\* Mutant of DirEmpty: rmdir does not mind a .lock in the directory.
DirEmpty_but_lock(d) == \A n \in Items : files[d][n] = Absent

\* rmdir succeeds on a directory that has no entry left.
DirEmpty(d) == lock[d] = NoLock /\ \A n \in Items : files[d][n] = Absent

\* Where a process is while it runs create_symlink_lockfile_at / dd_lock.
LockPcs == {"symlink", "readlink", "access", "unlink_stale", "check_time",
            "unlink_backoff"}

\* .lock of inode d holds the pid of a live process other than p.
HeldByLivePeer(lk, al, d, p) ==
    d # 0 /\ lk[d] \in Procs \ {p} /\ al[lk[d]]

\* Bookkeeping of free[], taken with every step.
Track ==
    free' = [q \in Procs |->
        IF proc'[q].pc \in LockPcs /\ IsOpenCaller(proc'[q].sleep_usec)
        THEN IF proc[q].pc \in LockPcs
             THEN free[q] \/ ~HeldByLivePeer(lock', alive', proc'[q].dd_fd, q)
             ELSE ~HeldByLivePeer(lock', alive', proc'[q].dd_fd, q)
        ELSE free[q]]

\* What the caller running in p does.
MayOpen(p) ==
    \/ role[p] \in {"any", "reader"}
    \/ role[p] = "opener" /\ proc[p].ret = "none" /\ pathDir # 0
    \/ role[p] = "deleter" /\ proc[p].ret = "none"
    \/ role[p] = "twice" /\ proc[p].ret = "none"
    \/ role[p] = "once" /\ proc[p].ret = "none"
MayCreate(p) ==
    \/ role[p] = "any"
    \/ role[p] = "creator" /\ proc[p].ret = "none"
MaySave(p, n) ==
    \/ role[p] = "any"
    \/ role[p] = "creator" /\ n = FILENAME_TIME
                           /\ files[proc[p].dd_fd][FILENAME_TIME] # Valid
MayClose(p) ==
    \/ role[p] \in {"any", "reader", "once"}
    \/ role[p] = "creator" /\ files[proc[p].dd_fd][FILENAME_TIME] = Valid
MayDelete(p) ==
    \/ role[p] = "any"
    \/ role[p] = "deleter" /\ proc[p].ret = "handle"

\* dd_init, and what is left of a process's state outside any call.
NoHandle(r) ==
    [pc |-> "idle", dd_fd |-> 0, locked |-> FALSE, sleep_usec |-> 0,
     count |-> 0, dontwait |-> FALSE, readonly |-> FALSE, pid_buf |-> NoLock,
     cnt |-> 0, todo |-> {}, unlink_lock_file |-> FALSE, name |-> "none",
     ret |-> r, nacq |-> 0, dd_time |-> 0 - 1, mode |-> 0]

\* A handle returned to the caller: the locals of the call are gone.
Handle(d, l, r) ==
    [NoHandle(r) EXCEPT !.pc = "have", !.dd_fd = d, !.locked = l]

\* The bits of 0666.
ITEM_MODE_MASK == 438

\* a & b on file modes.
RECURSIVE BitAnd(_, _)
BitAnd(a, b) ==
    IF a = 0 \/ b = 0 THEN 0
    ELSE 2 * BitAnd(a \div 2, b \div 2) + (a % 2) * (b % 2)

\* File modes: 0600, 0640, 0644, 0755, 01777, 04750.
AllModes == {384, 416, 420, 493, 1023, 2536}

\* The mode argument p passes to dd_create, and the st_mode fstat reports
\* for a directory p opens: any of AllModes in the scenario of one creator
\* and one opener, 0640 elsewhere.
ModeArgs(p) ==
    IF role[p] \in {"creator", "opener"} THEN AllModes ELSE {416}

Set(p, r) == proc' = [proc EXCEPT ![p] = r]

\* error_msg_and_die / xfunc_die: the process exits, its handle is gone.
Die(p) ==
    /\ alive' = [alive EXCEPT ![p] = FALSE]
    /\ Set(p, [NoHandle("died") EXCEPT !.pc = "dead"])
    /\ UNCHANGED <<access, role>>

\* The item looked at byte by byte: kind is "none" (no such name), "reg",
\* "symlink" or "dir"; nlink is st_nlink; bytes is the content (for a
\* symlink, that of the regular file it points to); saved is the data
\* handed to the last dd_save_text, lines those handed to add_reported_to,
\* prev the content before the last add_reported_to.
\* by tells who wrote the file: "other" (it was found there), "save"
\* (dd_save_text), "add" (add_reported_to calls alone, starting without a
\* file) or "mixed" (add_reported_to on a file that was found there).
\* other is the content of the file outside the directory that the name was
\* found linked to: the target of the symlink, or the inode that has a
\* second name (<<>> when there is none).
NoItem == [kind |-> "none", nlink |-> 0, bytes |-> <<>>, by |-> "other",
           saved |-> <<>>, lines |-> <<>>, prev |-> <<>>, other |-> <<>>]

\* No call on the item has returned yet.
NoRes == [call |-> "none", null |-> FALSE, val |-> <<>>]

\* ------------------------------------------------------------ initial

NoFiles == [n \in Items |-> Absent]

InitHandles ==
    /\ alive = [p \in Procs |-> TRUE]
    /\ proc = [p \in Procs |-> NoHandle("none")]
    /\ free = [p \in Procs |-> TRUE]

\* Every process is outside the manager and holds no handle; no item is
\* looked at byte by byte.
InitProcs ==
    /\ InitHandles
    /\ item = NoItem
    /\ res = NoRes

\* The path names nothing yet.
InitNoDir ==
    /\ pathDir = 0
    /\ ndirs = 0
    /\ linked = [d \in Dirs |-> FALSE]
    /\ lock = [d \in Dirs |-> NoLock]
    /\ files = [d \in Dirs |-> NoFiles]

\* The path names a directory left by earlier processes, none of which runs
\* any more: with or without a time file, with or without a .lock they left.
InitDir(timeStates, lockStates) ==
    /\ pathDir = 1
    /\ ndirs = 1
    /\ linked = [d \in Dirs |-> d = 1]
    /\ \E l \in lockStates : lock = [d \in Dirs |-> IF d = 1 THEN l ELSE NoLock]
    /\ \E t \in timeStates :
          files = [d \in Dirs |->
                     IF d = 1 THEN [NoFiles EXCEPT ![FILENAME_TIME] = t]
                     ELSE NoFiles]

Init ==
    /\ InitProcs
    /\ access \in [Procs -> {"rw", "ro"}]
    /\ access[1] = "rw"
    /\ role = [p \in Procs |-> "any"]
    /\ \/ InitNoDir
       \/ InitDir({Valid, Absent}, {NoLock, DeadPid, Junk})

\* ------------------------------------------------- dd_opendir, dd_lock

\* dd_opendir: dd_openfd, then dd_do_open up to the first symlinkat of dd_lock.
dd_opendir(p) ==
    /\ proc[p].pc = "idle"
    /\ MayOpen(p)
    /\ \E dw \in BOOLEAN, ro \in BOOLEAN, st_mode \in ModeArgs(p) :
          /\ role[p] = "opener" => ~dw /\ ~ro
          \* DD_OPEN_READONLY is read only after EACCES, which a process
          \* that may write never gets
          /\ access[p] = "rw" => ~ro
          /\ IF pathDir = 0
             THEN \* open fails (ENOENT): "does not exist", dd_close, NULL
                  Set(p, NoHandle("null_ENOENT"))
             ELSE Set(p, [NoHandle("none") EXCEPT
                            !.pc = "symlink", !.dd_fd = pathDir,
                            !.mode = BitAnd(st_mode, ITEM_MODE_MASK),
                            !.sleep_usec = WAIT_FOR_OTHER_PROCESS_USLEEP,
                            !.count = NO_TIME_FILE_COUNT,
                            !.dontwait = dw, !.readonly = ro])
    /\ UNCHANGED <<fsvars, envvars>>
    /\ Track
    /\ UNCHANGED textvars

\* The fall-back without the test of DD_OPEN_READONLY.
LockFailed_ignores_flag(s, p, e) ==
    IF IsOpenCaller(s.sleep_usec) /\ e = "null_EACCES" /\ access[p] = "ro"
    THEN [s EXCEPT !.pc = "ro_check"]
    ELSE NoHandle(e)

\* dd_opendir by a process that holds a locked handle of the directory and
\* keeps it: a second handle is made, dd_do_open runs dd_lock on it.  The
\* first handle is not touched while this call runs; proc[p] follows the
\* second one from here on, .lock keeps the pid of p.
dd_opendir_again(p) ==
    /\ proc[p].pc = "have" /\ proc[p].locked
    /\ role[p] = "twice"
    /\ pathDir = proc[p].dd_fd
    /\ \E dw \in BOOLEAN, st_mode \in ModeArgs(p) :
          Set(p, [NoHandle("none") EXCEPT
                    !.pc = "symlink", !.dd_fd = pathDir,
                    !.mode = BitAnd(st_mode, ITEM_MODE_MASK),
                    !.sleep_usec = WAIT_FOR_OTHER_PROCESS_USLEEP,
                    !.count = NO_TIME_FILE_COUNT,
                    !.dontwait = dw, !.readonly = FALSE])
    /\ UNCHANGED <<fsvars, envvars>>
    /\ Track
    /\ UNCHANGED textvars

\* dd_lock returned -1 with errno e: what dd_do_open / dd_create_skeleton do.
\* access[p] = "ro" is a directory that faccessat(R_OK) finds readable.
LockFailed(s, p, e) ==
    IF IsOpenCaller(s.sleep_usec) /\ s.readonly /\ e = "null_EACCES"
       /\ access[p] = "ro"
    THEN \* faccessat(R_OK) succeeded: dd_check decides
         [s EXCEPT !.pc = "ro_check"]
    ELSE \* the error is reported, dd_close, NULL
         NoHandle(e)

\* symlinkat(pid, dd_fd, ".lock") of create_symlink_lockfile_at.
symlinkat_lock(p) ==
    LET s == proc[p]
        d == s.dd_fd
    IN
    /\ s.pc = "symlink"
    /\ IF ~linked[d]
       THEN \* the directory was removed: ENOENT
            /\ Set(p, LockFailed(s, p, "null_ENOENT"))
            /\ UNCHANGED lock
       ELSE IF lock[d] # NoLock
       THEN \* EEXIST
            /\ Set(p, [s EXCEPT !.pc = "readlink"])
            /\ UNCHANGED lock
       ELSE IF access[p] # "rw"
       THEN /\ Set(p, LockFailed(s, p, "null_EACCES"))
            /\ UNCHANGED lock
       ELSE \* the symlink is made: create_symlink_lockfile_at returns 1
            /\ lock' = [lock EXCEPT ![d] = Pid(p)]
            /\ IF IsOpenCaller(s.sleep_usec)
               THEN Set(p, [s EXCEPT !.pc = "check_time", !.nacq = @ + 1])
               ELSE \* dd_create_skeleton: locked, fchmod, owner lookup, return dd
                    Set(p, [Handle(d, TRUE, "handle") EXCEPT !.mode = s.mode])
    /\ UNCHANGED <<pathDir, ndirs, linked, files, envvars>>
    /\ Track
    /\ UNCHANGED textvars


\* The decision of create_symlink_lockfile_at on the text read from .lock,
\* before it asks /proc: "ours" and "ask /proc" are busy candidates, the
\* rest is removed as stale.
LockTargetClass(t, p) ==
    IF t = Pid(p) THEN "ours"
    ELSE IF isdigit_str(t) THEN "pid"
    ELSE "stale"

\* readlinkat(dd_fd, ".lock") after symlinkat failed with EEXIST.
readlinkat_lock(p) ==
    LET s == proc[p]
        d == s.dd_fd
    IN
    /\ s.pc = "readlink"
    /\ IF lock[d] = NoLock
       THEN \* ENOENT: usleep(SYMLINK_RETRY_USLEEP), continue
            Set(p, [s EXCEPT !.pc = "symlink"])
       ELSE LET t == lock[d]
                c == LockTargetClass(t, p)
            IN Set(p, [s EXCEPT !.pid_buf = t,
                                !.pc = IF c = "ours" THEN "symlink"
                                       ELSE IF c = "pid" THEN "access"
                                       ELSE "unlink_stale"])
    /\ UNCHANGED <<fsvars, envvars>>
    /\ Track
    /\ UNCHANGED textvars

\* A busy answer that ends a call made with DD_DONT_WAIT_FOR_LOCK.
access_proc_dontwait(p) ==
    LET s == proc[p] IN
    /\ s.pc = "access"
    /\ Set(p, IF proc_exists(s.pid_buf)
              THEN IF s.dontwait THEN NoHandle("null_EISDIR")
                   ELSE [s EXCEPT !.pc = "symlink"]
              ELSE [s EXCEPT !.pc = "unlink_stale"])
    /\ UNCHANGED <<fsvars, envvars>>
    /\ Track
    /\ UNCHANGED textvars

\* A busy answer that uses up one of the NO_TIME_FILE_COUNT tries.
access_proc_counts(p) ==
    LET s == proc[p] IN
    /\ s.pc = "access"
    /\ Set(p, IF proc_exists(s.pid_buf)
              THEN [s EXCEPT !.pc = "symlink", !.count = @ - 1]
              ELSE [s EXCEPT !.pc = "unlink_stale"])
    /\ UNCHANGED <<fsvars, envvars>>
    /\ Track
    /\ UNCHANGED textvars

\* access("/proc/<pid_buf>", F_OK): a live locker makes the attempt return 0
\* and dd_lock sleeps sleep_usec before the next symlinkat.
access_proc(p) ==
    LET s == proc[p] IN
    /\ s.pc = "access"
    /\ Set(p, [s EXCEPT !.pc = IF proc_exists(s.pid_buf) THEN "symlink"
                               ELSE "unlink_stale"])
    /\ UNCHANGED <<fsvars, envvars>>
    /\ Track
    /\ UNCHANGED textvars

\* Mutant of unlink_stale: the stale lock is left where it is.
unlink_stale_skipped(p) ==
    LET s == proc[p] IN
    /\ s.pc = "unlink_stale"
    /\ Set(p, [s EXCEPT !.pc = "symlink"])
    /\ UNCHANGED <<fsvars, envvars>>
    /\ Track
    /\ UNCHANGED textvars

\* unlinkat(dd_fd, ".lock") of a lock found stale; ENOENT is ignored.  A
\* process that may not write gets EACCES: "Can't remove stale lock file",
\* errno = 0, return -1, which is no case of the read-only fall-back.
unlink_stale(p) ==
    LET s == proc[p]
        d == s.dd_fd
    IN
    /\ s.pc = "unlink_stale"
    /\ IF lock[d] # NoLock /\ access[p] # "rw"
       THEN /\ Set(p, LockFailed(s, p, "null_errno_0"))
            /\ UNCHANGED lock
       ELSE /\ lock' = [lock EXCEPT ![d] = NoLock]
            /\ Set(p, [s EXCEPT !.pc = "symlink"])
    /\ UNCHANGED <<pathDir, ndirs, linked, files, envvars>>
    /\ Track
    /\ UNCHANGED textvars

\* dd_check after the symlink was made on behalf of dd_opendir; on success
\* dd_lock sets locked and dd_do_open returns the handle.
check_time(p) ==
    LET s == proc[p]
        d == s.dd_fd
    IN
    /\ s.pc = "check_time"
    /\ IF parse_time_file_at(d)
       THEN Set(p, [Handle(d, TRUE, "handle") EXCEPT
                      !.pid_buf = s.pid_buf, !.dd_time = time_value(d),
                      !.mode = s.mode])
       ELSE Set(p, [s EXCEPT !.pc = "unlink_backoff"])
    /\ UNCHANGED <<fsvars, envvars>>
    /\ Track
    /\ UNCHANGED textvars

\* xunlinkat(dd_fd, ".lock"): unlink, and exit when the unlink fails.
xunlinkat_fails(d) == d = 0 \/ lock[d] = NoLock

\* The back-off of dd_lock: xunlinkat(".lock"), then give up with EISDIR or
\* usleep(NO_TIME_FILE_USLEEP) and retry.
unlink_backoff(p) ==
    LET s == proc[p]
        d == s.dd_fd
    IN
    /\ s.pc = "unlink_backoff"
    /\ IF xunlinkat_fails(d)
       THEN Die(p) /\ UNCHANGED lock
       ELSE /\ lock' = [lock EXCEPT ![d] = NoLock]
            /\ IF GiveUpNoTime(s.count, s.dontwait)
               THEN \* errno = EISDIR: "not a problem directory", dd_close, NULL
                    Set(p, NoHandle("null_EISDIR"))
               ELSE Set(p, [s EXCEPT !.pc = "symlink", !.count = @ - 1])
            /\ UNCHANGED envvars
    /\ UNCHANGED <<pathDir, ndirs, linked, files>>
    /\ Track
    /\ UNCHANGED textvars

\* The read-only fall-back of dd_do_open: the directory is readable, dd_check
\* decides between an unlocked handle and NULL.
ro_check(p) ==
    LET s == proc[p]
        d == s.dd_fd
    IN
    /\ s.pc = "ro_check"
    /\ IF parse_time_file_at(d)
       THEN Set(p, [Handle(d, FALSE, "handle") EXCEPT
                      !.dd_time = time_value(d), !.mode = s.mode])
       ELSE Set(p, NoHandle("null_EACCES"))
    /\ UNCHANGED <<fsvars, envvars>>
    /\ Track
    /\ UNCHANGED textvars

\* ------------------------------------- dd_create_skeleton / dd_create

\* mkdir(dir) or, with DD_CREATE_PARENTS (dd_create), g_mkdir_with_parents,
\* which also succeeds on a directory that exists.
mkdir_dir(p) ==
    /\ proc[p].pc = "idle"
    /\ MayCreate(p)
    /\ \E parents \in BOOLEAN, mode \in ModeArgs(p) :
       /\ role[p] = "creator" => parents
       /\ IF pathDir # 0
          THEN /\ IF parents
                  THEN Set(p, [NoHandle("none") EXCEPT !.pc = "create_open",
                                                   !.mode = mode])
                  ELSE Set(p, NoHandle("null_EEXIST"))
               /\ UNCHANGED fsvars
          ELSE IF access[p] # "rw"
          THEN \* mkdir fails (EACCES): dd_close, NULL
               /\ Set(p, NoHandle("null_EACCES"))
               /\ UNCHANGED fsvars
          ELSE /\ ndirs < MaxDirs
               /\ pathDir' = ndirs + 1
               /\ ndirs' = ndirs + 1
               /\ linked' = [linked EXCEPT ![ndirs + 1] = TRUE]
               /\ lock' = [lock EXCEPT ![ndirs + 1] = NoLock]
               /\ files' = [files EXCEPT ![ndirs + 1] = NoFiles]
               /\ Set(p, [NoHandle("none") EXCEPT !.pc = "create_open",
                                                   !.mode = mode])
    /\ UNCHANGED envvars
    /\ Track
    /\ UNCHANGED textvars

\* open(dd_dirname, O_DIRECTORY | O_NOFOLLOW) of the new directory, fstat,
\* and dd_lock's prologue with CREATE_LOCK_USLEEP.
create_open(p) ==
    LET s == proc[p] IN
    /\ s.pc = "create_open"
    /\ IF pathDir = 0
       THEN Set(p, NoHandle("null_ENOENT"))
       ELSE Set(p, [s EXCEPT !.pc = "symlink", !.dd_fd = pathDir,
                             !.sleep_usec = CREATE_LOCK_USLEEP,
                             !.count = NO_TIME_FILE_COUNT])
    /\ UNCHANGED <<fsvars, envvars>>
    /\ Track
    /\ UNCHANGED textvars


\* ------------------------------------------------------ item writes

\* Mutant of WriteAllowed: the test is missing.
WriteAlways(s) == TRUE

\* The test every writing call makes first: "if (!dd->locked) die".
WriteAllowed(s) == s.locked

\* dd_save_text / dd_save_binary up to the unlinkat of save_binary_file_at.
dd_save_text(p) ==
    LET s == proc[p]
        d == s.dd_fd
    IN
    /\ s.pc = "have"
    /\ \E n \in Items :
       /\ MaySave(p, n)
       /\ IF ~WriteAllowed(s)
          THEN Die(p) /\ UNCHANGED files
          ELSE /\ files' = [files EXCEPT ![d][n] = Absent]
               /\ Set(p, [s EXCEPT !.pc = "save_create", !.name = n])
               /\ UNCHANGED envvars
    /\ UNCHANGED <<pathDir, ndirs, linked, lock>>
    /\ Track
    /\ UNCHANGED textvars

\* openat(O_WRONLY | O_EXCL | O_CREAT | O_NOFOLLOW), fchown, fchmod.
save_create(p) ==
    LET s == proc[p]
        d == s.dd_fd
    IN
    /\ s.pc = "save_create"
    /\ IF ~linked[d] \/ files[d][s.name] # Absent
       THEN \* ENOENT or EEXIST: save_binary_file_at returns false
            /\ Set(p, [s EXCEPT !.pc = "have", !.name = "none"])
            /\ UNCHANGED files
       ELSE /\ files' = [files EXCEPT ![d][s.name] = EmptyBy(p)]
            /\ Set(p, [s EXCEPT !.pc = "save_write"])
    /\ UNCHANGED <<pathDir, ndirs, linked, lock, envvars>>
    /\ Track
    /\ UNCHANGED textvars

\* full_write and close: the data reaches the file this call created, if
\* the name still refers to it.
save_write(p) ==
    LET s == proc[p]
        d == s.dd_fd
    IN
    /\ s.pc = "save_write"
    /\ files' = [files EXCEPT ![d][s.name] =
                    IF @ = EmptyBy(p) THEN Valid ELSE @]
    /\ Set(p, [s EXCEPT !.pc = "have", !.name = "none"])
    /\ UNCHANGED <<pathDir, ndirs, linked, lock, envvars>>
    /\ Track
    /\ UNCHANGED textvars

\* dd_delete_item: unlinkat of the item, ENOENT is no error.
dd_delete_item(p) ==
    LET s == proc[p]
        d == s.dd_fd
    IN
    /\ s.pc = "have"
    /\ role[p] = "any"
    /\ \E n \in Items :
       IF ~WriteAllowed(s)
       THEN Die(p) /\ UNCHANGED files
       ELSE /\ files' = [files EXCEPT ![d][n] = Absent]
            /\ UNCHANGED proc
            /\ UNCHANGED envvars
    /\ UNCHANGED <<pathDir, ndirs, linked, lock>>
    /\ Track
    /\ UNCHANGED textvars

\* add_reported_to: load reported_to; a line already there ends the call,
\* otherwise the new content is saved through dd_save_text.
add_reported_to(p) ==
    LET s == proc[p]
        d == s.dd_fd
    IN
    /\ s.pc = "have"
    /\ role[p] = "any"
    /\ IF ~WriteAllowed(s)
       THEN Die(p) /\ UNCHANGED files
       ELSE /\ \E found \in BOOLEAN :
               /\ found => files[d][FILENAME_REPORTED_TO] = Valid
               /\ IF found
                  THEN UNCHANGED <<proc, files>>
                  ELSE /\ files' = [files EXCEPT ![d][FILENAME_REPORTED_TO] = Absent]
                       /\ Set(p, [s EXCEPT !.pc = "save_create",
                                           !.name = FILENAME_REPORTED_TO])
            /\ UNCHANGED envvars
    /\ UNCHANGED <<pathDir, ndirs, linked, lock>>
    /\ Track
    /\ UNCHANGED textvars

\* ------------------------------------------------------------ dd_close

\* Mutant of dd_unlock: locked is cleared and .lock is left behind.
dd_unlock_keeps_lock(p) ==
    LET s == proc[p] IN
    /\ s.pc = "have"
    /\ MayClose(p)
    /\ Set(p, [s EXCEPT !.pc = "close_fd", !.locked = FALSE])
    /\ UNCHANGED <<fsvars, envvars>>
    /\ Track
    /\ UNCHANGED textvars

\* dd_unlock: if (dd->locked) { dd->locked = 0; xunlinkat(".lock"); }
dd_unlock(p) ==
    LET s == proc[p]
        d == s.dd_fd
    IN
    /\ s.pc = "have"
    /\ MayClose(p)
    /\ IF s.locked
       THEN IF xunlinkat_fails(d)
            THEN Die(p) /\ UNCHANGED lock
            ELSE /\ lock' = [lock EXCEPT ![d] = NoLock]
                 /\ Set(p, [s EXCEPT !.pc = "close_fd", !.locked = FALSE])
                 /\ UNCHANGED envvars
       ELSE /\ Set(p, [s EXCEPT !.pc = "close_fd"])
            /\ UNCHANGED <<lock, envvars>>
    /\ UNCHANGED <<pathDir, ndirs, linked, files>>
    /\ Track
    /\ UNCHANGED textvars

\* The rest of dd_close: close(dd_fd), closedir, free.
dd_close(p) ==
    /\ proc[p].pc = "close_fd"
    /\ Set(p, NoHandle("closed"))
    /\ UNCHANGED <<fsvars, envvars>>
    /\ Track
    /\ UNCHANGED textvars

\* ----------------------------------------------------------- dd_delete

\* The entries a readdir of inode d returns.
Entries(d) ==
    {n \in Items : files[d][n] # Absent}
        \cup (IF lock[d] # NoLock THEN {LockName} ELSE {})

\* dd_delete: the locked test, then delete_file_dir's dup, fdopendir and
\* the first readdir, which reads the entries of the directory.
dd_delete(p) ==
    LET s == proc[p]
        d == s.dd_fd
    IN
    /\ s.pc = "have"
    /\ MayDelete(p)
    /\ IF ~s.locked
       THEN Set(p, [s EXCEPT !.ret = "delete_m1"])
       ELSE Set(p, [s EXCEPT !.pc = "delete_scan", !.todo = Entries(d),
                             !.unlink_lock_file = FALSE])
    /\ UNCHANGED <<fsvars, envvars>>
    /\ Track
    /\ UNCHANGED textvars

\* Whether an unlinkat of delete_file_dir may fail with an error other
\* than ENOENT (EPERM, EBUSY, a sub-directory that cannot be emptied): it
\* may in the scenarios of one deleter, elsewhere it succeeds.
UnlinkOutcomes(p) == IF role[p] = "deleter" THEN BOOLEAN ELSE {TRUE}

\* Mutant of delete_failed: the handle is unlocked on the way out.
delete_failed_unlocks(s) ==
    [s EXCEPT !.pc = "have", !.todo = {}, !.unlink_lock_file = FALSE,
              !.locked = FALSE, !.ret = "delete_m2"]

\* delete_file_dir returned -1 ("Can't remove"): dd_delete returns -2.
delete_failed(s) ==
    [s EXCEPT !.pc = "have", !.todo = {}, !.unlink_lock_file = FALSE,
              !.ret = "delete_m2"]

\* One turn of delete_file_dir's loop: .lock is skipped and remembered,
\* any other entry is removed with unlinkat (ENOENT is no error).
delete_entry(p) ==
    LET s == proc[p]
        d == s.dd_fd
    IN
    /\ s.pc = "delete_scan"
    /\ \E e \in s.todo, ok \in UnlinkOutcomes(p) :
          IF e = LockName
          THEN /\ ok
               /\ Set(p, [s EXCEPT !.todo = @ \ {e}, !.unlink_lock_file = TRUE])
               /\ UNCHANGED files
          ELSE IF ok
          THEN /\ files' = [files EXCEPT ![d][e] = Absent]
               /\ Set(p, [s EXCEPT !.todo = @ \ {e}])
          ELSE /\ Set(p, delete_failed(s))
               /\ UNCHANGED files
    /\ UNCHANGED <<pathDir, ndirs, linked, lock, envvars>>
    /\ Track
    /\ UNCHANGED textvars

\* The end of delete_file_dir: xunlinkat(".lock") if it was seen, closedir.
delete_unlink_lock(p) ==
    LET s == proc[p]
        d == s.dd_fd
    IN
    /\ s.pc = "delete_scan"
    /\ s.todo = {}
    /\ IF s.unlink_lock_file /\ xunlinkat_fails(d)
       THEN Die(p) /\ UNCHANGED lock
       ELSE /\ lock' = [lock EXCEPT ![d] = IF s.unlink_lock_file THEN NoLock ELSE @]
            /\ Set(p, [s EXCEPT !.pc = "delete_rmdir", !.unlink_lock_file = FALSE,
                                !.cnt = RMDIR_FAIL_COUNT])
            /\ UNCHANGED envvars
    /\ UNCHANGED <<pathDir, ndirs, linked, files>>
    /\ Track
    /\ UNCHANGED textvars

\* Mutant of rmdir_ok: a failed rmdir is taken for a success.
rmdir_ok_unchecked == pathDir # 0

\* rmdir(dd_dirname) succeeds on an existing, empty directory.
rmdir_ok == pathDir # 0 /\ DirEmpty(pathDir)

\* Mutant of RmdirGiveUp: the loop is "while (1)".
RmdirGiveUp_never(c) == FALSE

\* "} while (--cnt != 0); if (cnt == 0) return -3": the attempts are used up.
RmdirGiveUp(c) == c - 1 = 0

\* One turn of dd_delete's rmdir loop, and what follows it.
delete_rmdir(p) ==
    LET s == proc[p] IN
    /\ s.pc = "delete_rmdir"
    /\ IF rmdir_ok
       THEN \* dd->locked = 0; dd_close(dd); return 0
            /\ linked' = [linked EXCEPT ![pathDir] = FALSE]
            /\ pathDir' = 0
            /\ Set(p, NoHandle("delete_0"))
       ELSE /\ IF RmdirGiveUp(s.cnt)
               THEN Set(p, [s EXCEPT !.pc = "have", !.cnt = 0,
                                     !.ret = "delete_m3"])
               ELSE Set(p, [s EXCEPT !.cnt = @ - 1])
            /\ UNCHANGED <<pathDir, linked>>
    /\ UNCHANGED <<ndirs, lock, files, envvars>>
    /\ Track
    /\ UNCHANGED textvars

\* ------------------------------------------------------- specification

Next ==
    \E p \in Procs :
        \/ dd_opendir(p)
        \/ symlinkat_lock(p)
        \/ readlinkat_lock(p)
        \/ access_proc(p)
        \/ unlink_stale(p)
        \/ check_time(p)
        \/ unlink_backoff(p)
        \/ ro_check(p)
        \/ mkdir_dir(p)
        \/ create_open(p)
        \/ dd_save_text(p)
        \/ save_create(p)
        \/ save_write(p)
        \/ dd_delete_item(p)
        \/ add_reported_to(p)
        \/ dd_unlock(p)
        \/ dd_close(p)
        \/ dd_delete(p)
        \/ delete_entry(p)
        \/ delete_unlink_lock(p)
        \/ delete_rmdir(p)

Spec == Init /\ [][Next]_vars


\* The calls of dd_opendir and dd_close alone.
NextLock ==
    \E p \in Procs :
        \/ dd_opendir(p)
        \/ symlinkat_lock(p)
        \/ readlinkat_lock(p)
        \/ access_proc(p)
        \/ unlink_stale(p)
        \/ check_time(p)
        \/ unlink_backoff(p)
        \/ ro_check(p)
        \/ dd_unlock(p)
        \/ dd_close(p)

\* Several processes open and close a directory that earlier processes left.
InitReaders ==
    /\ InitProcs
    /\ access \in [Procs -> {"rw", "ro"}]
    /\ role = [p \in Procs |-> "reader"]
    /\ InitDir({Valid, Absent, Corrupt}, {NoLock, DeadPid, Junk})

SpecReaders == InitReaders /\ [][NextLock]_vars

\* Process 1 may not write into the directory, and may or may not read it
\* by its real ids; the other processes may write.
InitReadOnly ==
    /\ InitProcs
    /\ access \in [Procs -> {"rw", "ro", "noread"}]
    /\ access[1] # "rw"
    /\ \A p \in Procs \ {1} : access[p] = "rw"
    /\ role = [p \in Procs |-> "reader"]
    /\ InitDir({Valid, Absent, Corrupt}, {NoLock, DeadPid, Junk})

SpecReadOnly == InitReadOnly /\ [][NextLock]_vars

\* Process 1 opens the directory and, holding the lock, opens it again;
\* the other processes open and close it.
NextTwice ==
    \/ NextLock
    \/ \E p \in Procs : dd_opendir_again(p)

InitTwice ==
    /\ InitProcs
    /\ access \in [Procs -> {"rw", "ro"}]
    /\ access[1] = "rw"
    /\ role = [p \in Procs |-> IF p = 1 THEN "twice" ELSE "reader"]
    /\ InitDir({Valid, Absent, Corrupt}, {NoLock, DeadPid, Junk})

SpecTwice == InitTwice /\ [][NextTwice]_vars

\* One process opens and closes the directory, nobody else touches it.
InitSolo ==
    /\ InitProcs
    /\ access \in [Procs -> {"rw", "ro"}]
    /\ \A p \in Procs \ {1} : access[p] = "rw"
    /\ role = [p \in Procs |-> IF p = 1 THEN "reader" ELSE "none"]
    /\ InitDir({Valid, Absent, Corrupt}, {NoLock, DeadPid, Junk})

SpecSolo == InitSolo /\ [][NextLock]_vars /\ WF_vars(NextLock)

\* Process 1 creates the directory with dd_create, writes time and closes;
\* process 2 calls dd_opendir once, after the directory was made.
NextCreateOpen ==
    \E p \in Procs :
        \/ mkdir_dir(p)
        \/ create_open(p)
        \/ dd_opendir(p)
        \/ symlinkat_lock(p)
        \/ readlinkat_lock(p)
        \/ access_proc(p)
        \/ check_time(p)
        \/ unlink_backoff(p)
        \/ dd_save_text(p)
        \/ save_create(p)
        \/ save_write(p)
        \/ dd_unlock(p)
        \/ dd_close(p)

StepCreateOpen(p) ==
    \/ mkdir_dir(p)
    \/ create_open(p)
    \/ dd_opendir(p)
    \/ symlinkat_lock(p)
    \/ readlinkat_lock(p)
    \/ access_proc(p)
    \/ check_time(p)
    \/ unlink_backoff(p)
    \/ dd_save_text(p)
    \/ save_create(p)
    \/ save_write(p)
    \/ dd_unlock(p)
    \/ dd_close(p)

InitCreateOpen ==
    /\ InitProcs
    /\ access = [p \in Procs |-> "rw"]
    /\ role = [p \in Procs |-> IF p = 1 THEN "creator"
                               ELSE IF p = 2 THEN "opener" ELSE "none"]
    /\ InitNoDir

SpecCreateOpen ==
    /\ InitCreateOpen
    /\ [][NextCreateOpen]_vars
    /\ \A p \in Procs : WF_vars(StepCreateOpen(p))

\* Process 1 opens a problem directory and deletes it with one dd_delete;
\* process 2 opens and closes the same path again and again.
NextDeleteRace ==
    \E p \in Procs :
        \/ dd_opendir(p)
        \/ symlinkat_lock(p)
        \/ readlinkat_lock(p)
        \/ access_proc(p)
        \/ check_time(p)
        \/ unlink_backoff(p)
        \/ dd_unlock(p)
        \/ dd_close(p)
        \/ dd_delete(p)
        \/ delete_entry(p)
        \/ delete_unlink_lock(p)
        \/ delete_rmdir(p)

InitDeleteRace ==
    /\ InitProcs
    /\ access = [p \in Procs |-> "rw"]
    /\ role = [p \in Procs |-> IF p = 1 THEN "deleter"
                               ELSE IF p = 2 THEN "reader" ELSE "none"]
    /\ InitDir({Valid}, {NoLock})

SpecDeleteRace == InitDeleteRace /\ [][NextDeleteRace]_vars

\* The deleter may also lack write access and hold a read-only handle.
NextDeleteAny ==
    \/ NextDeleteRace
    \/ \E p \in Procs : ro_check(p)

InitDeleteAny ==
    /\ InitProcs
    /\ access \in [Procs -> {"rw", "ro"}]
    /\ \A p \in Procs \ {1} : access[p] = "rw"
    /\ role = [p \in Procs |-> IF p = 1 THEN "deleter"
                               ELSE IF p = 2 THEN "reader" ELSE "none"]
    /\ InitDir({Valid}, {NoLock})

SpecDeleteAny == InitDeleteAny /\ [][NextDeleteAny]_vars

\* Every process calls dd_opendir once on a problem directory that earlier
\* processes left, with or without a stale .lock, and calls dd_close on the
\* handle it got.  No process is stopped for good: the loops of dd_lock
\* sleep for a bounded time and go on, and a holder goes on to dd_close.
StepOnce(p) ==
    \/ dd_opendir(p)
    \/ symlinkat_lock(p)
    \/ readlinkat_lock(p)
    \/ access_proc(p)
    \/ unlink_stale(p)
    \/ check_time(p)
    \/ dd_unlock(p)
    \/ dd_close(p)

NextOnce == \E p \in Procs : StepOnce(p)

InitOnce ==
    /\ InitProcs
    /\ access = [p \in Procs |-> "rw"]
    /\ role = [p \in Procs |-> "once"]
    /\ InitDir({Valid}, {NoLock, DeadPid, Junk})

SpecOnce ==
    InitOnce /\ [][NextOnce]_vars /\ \A p \in Procs : WF_vars(StepOnce(p))

\* The steps of one dd_delete call.
StepDelete(p) ==
    \/ dd_delete(p)
    \/ delete_entry(p)
    \/ delete_unlink_lock(p)
    \/ delete_rmdir(p)

\* The same, with the process inside dd_delete never stopped for good: its
\* loop sleeps RMDIR_FAIL_USLEEP and goes on.
SpecDeleteFair == SpecDeleteRace /\ WF_vars(StepDelete(1))

\* ------------------------------------------------- item contents
\* One item of a directory whose handle is locked, byte by byte.  A byte is
\* its value 0..255, a text a sequence of bytes.

\* Longest data handed to dd_save_text, apart from the long runs of LongData.
MaxLen == 3
\* Largest link count of a file found in the directory.
MaxLinks == 2

\* Width of "int oneline" of load_text_from_file_descriptor.
INT_BITS == 32
NUL == 0
NL == 10
SP == 32

\* The bytes texts are made of: NUL, a control byte that is no white space,
\* a tab, a newline and a letter.
Bytes == {NUL, 1, 9, NL, 97}

Texts(n) == UNION {[1..k -> Bytes] : k \in 0..n}

\* n newlines in a row.
NlRun(n) == [i \in 1..n |-> NL]

\* Texts with as many newlines as "oneline" has value bits, and more.
LongData == {NlRun(INT_BITS - 1) \o t : t \in Texts(2)}

Data == Texts(MaxLen) \cup LongData

\* isspace() in the C locale.
isspace(ch) == ch \in {9, 10, 11, 12, 13, SP}

RECURSIVE CountNl(_)
CountNl(t) ==
    IF t = <<>> THEN 0
    ELSE (IF Head(t) = NL THEN 1 ELSE 0) + CountNl(Tail(t))

\* The fgetc loop of load_text_from_file_descriptor: what reaches
\* buf_content.
RECURSIVE ReadLoop(_)
ReadLoop(t) ==
    IF t = <<>> THEN <<>>
    ELSE LET ch == IF Head(t) = NUL THEN SP ELSE Head(t)
         IN (IF isspace(ch) \/ ch >= SP THEN <<ch>> ELSE <<>>)
                \o ReadLoop(Tail(t))

\* Values "oneline" may hold once "(oneline << 1) | 1" has overflowed int,
\* which is undefined behaviour: one of each sign, the two the code tests
\* for, and the wrapped value.
OverflowValues == {0 - 1, 0, 1, 3}

\* "(oneline << 1) | 1" done n times on 0, for n below INT_BITS.
RECURSIVE ShiftOr(_)
ShiftOr(n) == IF n = 0 THEN 0 ELSE ShiftOr(n - 1) * 2 + 1

\* The values to try for a file that holds t: the overflow happens with
\* INT_BITS newlines or more, below that the value is not looked at.
OverflowChoices(t) ==
    IF CountNl(t) < INT_BITS THEN {0} ELSE OverflowValues

\* "oneline" after the loop: nl newlines set the low nl bits.
OnelineAfter(nl, u) == IF nl < INT_BITS THEN ShiftOr(nl) ELSE u

\* Mutant of load_text_from_file_descriptor: the text is returned as read.
load_text_as_read(t, u) == ReadLoop(t)

\* load_text_from_file_descriptor on an open descriptor whose file holds t.
load_text_from_file_descriptor(t, u) ==
    LET buf == ReadLoop(t)
        oneline == OnelineAfter(CountNl(t), u)
        last == IF oneline # 0 THEN buf[Len(buf)] ELSE 0
    IN IF last = NL
       THEN IF oneline = 1 THEN SubSeq(buf, 1, Len(buf) - 1) ELSE buf
       ELSE IF oneline >= 1 THEN Append(buf, NL) ELSE buf

\* The fd == -1 branch: NULL with DD_LOAD_TEXT_RETURN_NULL_ON_FAILURE, else
\* xstrdup("").
LoadFailed(nullfail) == [call |-> "load", null |-> nullfail, val |-> <<>>]

\* load_text_file_at: openat(O_RDONLY, O_NOFOLLOW unless DD_OPEN_FOLLOW),
\* then load_text_from_file_descriptor.  A directory opens, and its first
\* read fails (EISDIR), which fgetc reports as EOF.
load_text_file_at(f, follow, nullfail, u) ==
    IF f.kind = "none" \/ (f.kind = "symlink" /\ ~follow)
    THEN LoadFailed(nullfail)
    ELSE [call |-> "load", null |-> FALSE,
          val |-> load_text_from_file_descriptor(
                      IF f.kind = "dir" THEN <<>> ELSE f.bytes, u)]

\* strlen(data): data ends at its first NUL.
RECURSIVE CString(_)
CString(t) ==
    IF t = <<>> \/ Head(t) = NUL THEN <<>>
    ELSE <<Head(t)>> \o CString(Tail(t))

\* Mutant of save_binary_file_at: no unlinkat, and an open that takes the
\* file the name leads to.
save_binary_file_at_through(f, bytes) ==
    IF f.kind = "dir" THEN f
    ELSE IF f.kind = "symlink" \/ f.nlink > 1
    THEN [f EXCEPT !.bytes = bytes, !.other = bytes]
    ELSE [f EXCEPT !.kind = "reg", !.nlink = 1, !.bytes = bytes]

\* save_binary_file_at: unlinkat(name, 0) removes anything but a directory,
\* openat(O_EXCL | O_CREAT) then fails on what is left, else the new file
\* gets the size bytes of data.
save_binary_file_at(f, bytes) ==
    IF f.kind = "dir" THEN f
    ELSE [f EXCEPT !.kind = "reg", !.nlink = 1, !.bytes = bytes]

\* dd_load_text_ext / dd_load_text (flags 0) with a valid item name.
LoadText ==
    /\ \E follow \in BOOLEAN, nullfail \in BOOLEAN,
          u \in OverflowChoices(item.bytes) :
          res' = load_text_file_at(item, follow, nullfail, u)
    /\ UNCHANGED <<fsvars, envvars, proc, free, item>>

\* dd_save_text(dd, name, data) with a valid item name.
SaveText ==
    /\ \E data \in Data :
          /\ item' = [save_binary_file_at(item, CString(data)) EXCEPT
                         !.by = IF item.kind = "dir" THEN @ ELSE "save",
                         !.saved = data]
          /\ res' = [call |-> "save", null |-> item.kind = "dir", val |-> <<>>]
    /\ UNCHANGED <<fsvars, envvars, proc, free>>

\* Files another program left under the item's name.
FoundItems ==
    {NoItem} \cup
    {[NoItem EXCEPT !.kind = k, !.nlink = n, !.bytes = b,
                    !.other = IF k = "symlink" \/ (k = "reg" /\ n > 1)
                              THEN b ELSE <<>>] :
        k \in {"reg", "symlink", "dir"}, n \in 1..MaxLinks,
        b \in {<<>>, <<97>>, <<97, NL>>}}

NextItem == LoadText \/ SaveText

\* One process holds the lock of the directory and reads and writes one item.
InitItem ==
    /\ InitHandles
    /\ InitNoDir
    /\ access = [p \in Procs |-> "rw"]
    /\ role = [p \in Procs |-> "none"]
    /\ item \in FoundItems
    /\ res = NoRes

SpecItem == InitItem /\ [][NextItem]_vars

\* ----------------------------------------------------- reported_to
\* The item is reported_to; the handle is locked.

\* Number of add_reported_to calls in a run.
MaxAdds == 3

\* "A: " and "B: ", "URL=" and "MSG=".
PrefixA == <<65, 58, SP>>
PrefixB == <<66, 58, SP>>
UrlKey == <<85, 82, 76, 61>>
MsgKey == <<77, 83, 71, 61>>

\* What follows the prefix in a line: URL=x / URL=y / x URL=x URL=y /
\* URL=x MSG=y z / MSG=x URL=y
Bodies ==
    { UrlKey \o <<120>>,
      UrlKey \o <<121>>,
      <<120, SP>> \o UrlKey \o <<120, SP>> \o UrlKey \o <<121>>,
      UrlKey \o <<120, SP>> \o MsgKey \o <<121, SP, 122>>,
      MsgKey \o <<120, SP>> \o UrlKey \o <<121>> }

\* The lines handed to add_reported_to: records of two reporters, one of
\* them also with a leading control byte, and a line that is no record.
ReportLines ==
    {p \o b : p \in {PrefixA, PrefixB}, b \in Bodies}
        \cup {<<1>> \o PrefixA \o UrlKey \o <<122>>, <<97>>}

\* The prefixes handed to find_in_reported_to.
FindPrefixes == {PrefixA, PrefixB, <<67, 58, SP>>}

\* t has u at index i: strncmp(t + i, u, strlen(u)) == 0
HasAt(t, i, u) ==
    /\ i + Len(u) - 1 <= Len(t)
    /\ SubSeq(t, i, i + Len(u) - 1) = u

\* Where the scanning loops stand: at the start of the text and after each
\* newline, as long as a byte is there.
LineStarts(t) == {i \in 1..Len(t) : i = 1 \/ t[i - 1] = NL}

\* strchrnul(t + i, '\n'): index of the first newline at or after i, or of
\* the end of the text.
RECURSIVE strchrnul(_, _)
strchrnul(t, i) ==
    IF i > Len(t) \/ t[i] = NL THEN i ELSE strchrnul(t, i + 1)

\* The loop of add_reported_to: some line of t is line.
LineFound(t, line) ==
    \E i \in LineStarts(t) :
        /\ HasAt(t, i, line)
        /\ (i + Len(line) = Len(t) + 1 \/ t[i + Len(line)] = NL)

\* What add_reported_to hands to dd_save_text when the line was not found
\* in the loaded text t.
AppendLine(t, line) ==
    (IF t # <<>> /\ t[Len(t)] # NL THEN Append(t, NL) ELSE t)
        \o line \o <<NL>>

\* add_reported_to(dd, line) on a locked handle.
AddReportedTo ==
    /\ Len(item.lines) < MaxAdds
    /\ \E line \in ReportLines, u \in OverflowChoices(item.bytes) :
          LET r == load_text_file_at(item, FALSE, TRUE, u)
              hist == [item EXCEPT !.lines = Append(@, line),
                                   !.prev = item.bytes]
              new == IF r.null THEN line \o <<NL>> ELSE AppendLine(r.val, line)
              saved == save_binary_file_at(hist, CString(new))
          IN IF ~r.null /\ LineFound(r.val, line)
             THEN item' = hist
             ELSE item' = [saved EXCEPT
                             !.by = IF item.kind = "dir" THEN @
                                    ELSE IF item.kind = "none" \/ item.by = "add"
                                    THEN "add" ELSE "mixed"]
    /\ res' = [call |-> "add", null |-> FALSE, val |-> <<>>]
    /\ UNCHANGED <<fsvars, envvars, proc, free>>

\* skip_whitespace / skip_non_whitespace from index i.
RECURSIVE skip_whitespace(_, _)
skip_whitespace(t, i) ==
    IF i <= Len(t) /\ isspace(t[i]) THEN skip_whitespace(t, i + 1) ELSE i
RECURSIVE skip_non_whitespace(_, _)
skip_non_whitespace(t, i) ==
    IF i <= Len(t) /\ ~isspace(t[i]) THEN skip_non_whitespace(t, i + 1) ELSE i

\* A report_result_t: url and msg are NULL until a key sets them.
NoResult == [url_set |-> FALSE, url |-> <<>>, msg_set |-> FALSE, msg |-> <<>>]

\* The loop of parse_reported_line from index i of line t.
RECURSIVE ParseFrom(_, _, _)
ParseFrom(t, i, r) ==
    LET b == skip_whitespace(t, i)
        e == skip_non_whitespace(t, b)
    IN IF b > Len(t) THEN r
       ELSE IF HasAt(t, b, MsgKey)
       THEN [r EXCEPT !.msg_set = TRUE, !.msg = SubSeq(t, b + 4, Len(t))]
       ELSE IF HasAt(t, b, UrlKey)
       THEN ParseFrom(t, e, [r EXCEPT !.url_set = TRUE,
                                      !.url = SubSeq(t, b + 4, e - 1)])
       ELSE ParseFrom(t, e, r)

parse_reported_line(t) == ParseFrom(t, 1, NoResult)

\* find_in_reported_to found nothing, or no file: NULL.
FindNull(prefix) ==
    [call |-> "find", null |-> TRUE, val |-> NoResult, prefix |-> prefix]

\* Mutant of find_in_reported_to: the first line with the prefix is taken.
find_first_in_reported_to(t, prefix) ==
    LET hits == {i \in LineStarts(t) : HasAt(t, i, prefix)}
    IN IF hits = {}
       THEN FindNull(prefix)
       ELSE LET i == CHOOSE h \in hits : \A g \in hits : h <= g
            IN [call |-> "find", null |-> FALSE, prefix |-> prefix,
                val |-> parse_reported_line(
                          SubSeq(t, i + Len(prefix), strchrnul(t, i) - 1))]

\* find_in_reported_to on the loaded text t: the last line start that has
\* the prefix, and the rest of that line parsed.
find_in_reported_to(t, prefix) ==
    LET hits == {i \in LineStarts(t) : HasAt(t, i, prefix)}
    IN IF hits = {}
       THEN FindNull(prefix)
       ELSE LET i == CHOOSE h \in hits : \A g \in hits : g <= h
            IN [call |-> "find", null |-> FALSE, prefix |-> prefix,
                val |-> parse_reported_line(
                          SubSeq(t, i + Len(prefix), strchrnul(t, i) - 1))]

\* find_in_reported_to(dd, prefix).
FindInReportedTo ==
    /\ \E prefix \in FindPrefixes, u \in OverflowChoices(item.bytes) :
          LET r == load_text_file_at(item, FALSE, TRUE, u)
          IN res' = IF r.null
                    THEN FindNull(prefix)
                    ELSE find_in_reported_to(r.val, prefix)
    /\ UNCHANGED <<fsvars, envvars, proc, free, item>>

\* reported_to files another program left.
FoundReports ==
    {NoItem} \cup
    {[NoItem EXCEPT !.kind = k, !.nlink = n, !.bytes = b] :
        k \in {"reg", "dir"}, n \in 1..MaxLinks,
        b \in {<<>>, <<97>>, <<97, NL>>, <<98, NL, 97>>, <<97, NL, NL>>}}

NextReported == AddReportedTo \/ FindInReportedTo

InitReported ==
    /\ InitHandles
    /\ InitNoDir
    /\ access = [p \in Procs |-> "rw"]
    /\ role = [p \in Procs |-> "none"]
    /\ item \in FoundReports
    /\ res = NoRes

SpecReported == InitReported /\ [][NextReported]_vars

\* ------------------------------------------------------- time file
\* The item is the time file, on a platform with an 8-byte time_t and an
\* 8-byte long long.  Numbers too large for the checker are kept as their
\* decimal digits, most significant first, without leading zeros (0 is <<>>).

\* Longest content tried, apart from the long ones of LongTimes.
MaxTimeLen == 3

\* sizeof(time_buf): sizeof(time_t) * 3 + 1
TIME_BUF_SIZE == 25

\* MAX_TIME_T and LLONG_MAX: 2^63 - 1 = 9223372036854775807
MAX_TIME_T == <<9, 2, 2, 3, 3, 7, 2, 0, 3, 6, 8, 5, 4, 7, 7, 5, 8, 0, 7>>

\* '0' .. '9' as bytes, and the value of a digit byte.
DigitBytes == 48..57
DigitOf(b) == b - 48

\* The bytes a time file is made of here: NUL, newline, space, '-', '+',
\* '0', '1', '9' and a letter.
TimeBytes == {NUL, NL, SP, 45, 43, 48, 49, 57, 97}

Repeat(b, n) == [i \in 1..n |-> b]
AsBytes(digits) == [i \in 1..Len(digits) |-> digits[i] + 48]

\* Contents around the limits: the largest time_t, one less, one more
\* digit, and files of one byte less than the buffer, and as long as it.
LongTimes ==
    LET max == AsBytes(MAX_TIME_T)
        below == [max EXCEPT ![Len(max)] = 54]
    IN { max, below, Append(below, NL), Append(max, NL), Append(below, NUL),
         Repeat(57, Len(max)), Repeat(49, Len(max) + 1),
         Repeat(48, TIME_BUF_SIZE - 1), Repeat(48, TIME_BUF_SIZE),
         Append(Repeat(48, TIME_BUF_SIZE - 2), NL),
         Append(Repeat(48, TIME_BUF_SIZE - 1), NL),
         <<48>> \o below, Repeat(49, TIME_BUF_SIZE - 1) }

TimeTexts ==
    UNION {[1..k -> TimeBytes] : k \in 0..MaxTimeLen} \cup LongTimes

\* isdigit_str on a C string.
isdigit_cstr(s) == s # <<>> /\ \A i \in 1..Len(s) : s[i] \in DigitBytes

\* Decimal digits without leading zeros.
RECURSIVE Normal(_)
Normal(d) == IF d # <<>> /\ d[1] = 0 THEN Normal(Tail(d)) ELSE d

\* a < b for two numbers in normal form.
RECURSIVE LexLess(_, _)
LexLess(a, b) ==
    IF a = <<>> THEN FALSE
    ELSE IF a[1] # b[1] THEN a[1] < b[1]
    ELSE LexLess(Tail(a), Tail(b))
DecLess(a, b) ==
    Len(a) < Len(b) \/ (Len(a) = Len(b) /\ LexLess(a, b))

\* strtoll(s, &endptr, 10) on C string s: white space, one sign, digits.
\* end is the index endptr points to (1 when no digit was found), erange
\* tells errno == ERANGE, in which case val is LLONG_MAX or LLONG_MIN.
strtoll(s) ==
    LET b == skip_whitespace(s, 1)
        signed == b <= Len(s) /\ s[b] \in {43, 45}
        d == IF signed THEN b + 1 ELSE b
        e == CHOOSE j \in d..(Len(s) + 1) :
                /\ \A i \in d..(j - 1) : s[i] \in DigitBytes
                /\ (j = Len(s) + 1 \/ s[j] \notin DigitBytes)
        mag == Normal([i \in 1..(e - d) |-> DigitOf(s[d + i - 1])])
        neg == signed /\ s[b] = 45
        \* -LLONG_MIN is LLONG_MAX + 1
        over == IF neg /\ mag # <<>>
                THEN DecLess(MAX_TIME_T, mag)
                     /\ mag # [MAX_TIME_T EXCEPT ![Len(MAX_TIME_T)] = 8]
                ELSE DecLess(MAX_TIME_T, mag)
    IN [end |-> IF e = d THEN 1 ELSE e,
        neg |-> neg /\ mag # <<>>,
        mag |-> IF over THEN MAX_TIME_T ELSE mag,
        erange |-> over]

\* A negative result of parse_time_file_at.
TimeFailed == [call |-> "time", null |-> TRUE, val |-> <<>>]

\* parse_time_file_at on file f; null stands for the result -1, val holds
\* the digits of the value returned.
parse_time_text(f) ==
    IF f.kind # "reg" \/ f.nlink > 1
    THEN \* secure_openat_read fails
         TimeFailed
    ELSE LET rdsz == IF Len(f.bytes) < TIME_BUF_SIZE THEN Len(f.bytes)
                     ELSE TIME_BUF_SIZE
             len == IF rdsz > 0 /\ f.bytes[rdsz] = NL THEN rdsz - 1 ELSE rdsz
             time_buf == CString(SubSeq(f.bytes, 1, len))
             r == strtoll(time_buf)
         IN IF rdsz = TIME_BUF_SIZE THEN TimeFailed
            ELSE IF \/ r.erange
                    \/ r.end # Len(time_buf) + 1
                    \/ (~r.neg /\ ~DecLess(r.mag, MAX_TIME_T))
                    \/ ~isdigit_cstr(time_buf)
            THEN TimeFailed
            ELSE [call |-> "time", null |-> r.neg, val |-> r.mag]

\* dd_check: parse_time_file_at(dd->dd_fd, FILENAME_TIME).
ParseTime ==
    /\ res.call = "none"
    /\ res' = parse_time_text(item)
    /\ UNCHANGED <<fsvars, envvars, proc, free, item>>

NextTime == ParseTime

\* Time files as a crashed or foreign program may have left them.
InitTime ==
    /\ InitHandles
    /\ InitNoDir
    /\ access = [p \in Procs |-> "rw"]
    /\ role = [p \in Procs |-> "none"]
    /\ \E b \in TimeTexts, n \in 1..MaxLinks :
          item = [NoItem EXCEPT !.kind = "reg", !.nlink = n, !.bytes = b]
    /\ res = NoRes

SpecTime == InitTime /\ [][NextTime]_vars

\* ------------------------------------------------------------- claims

Holders == {p \in Procs : proc[p].locked}

\* C1: at most one handle has locked = TRUE at any instant.
C1_MutualExclusion == Cardinality(Holders) <= 1

\* C2: every handle with locked = TRUE has a .lock in its directory whose
\* target is the pid of the process that owns the handle.
C2_LockedHasOwnLock ==
    \A p \in Procs : proc[p].locked => lock[proc[p].dd_fd] = Pid(p)

\* C3: dd_close on a handle that holds the lock unlinks .lock while the
\* descriptor is still open, and from then until the handle is freed the
\* directory holds no .lock made by this handle.
C3_CloseUnlinksFirst ==
    /\ [](\A p \in Procs :
            proc[p].pc = "close_fd" =>
                /\ ~proc[p].locked
                /\ proc[p].dd_fd # 0 => lock[proc[p].dd_fd] # Pid(p))
    /\ [][\A p \in Procs :
            /\ (proc[p].pc = "have" /\ proc[p].locked /\ proc'[p].pc = "close_fd")
                  => /\ lock'[proc[p].dd_fd] = NoLock
                     /\ proc'[p].dd_fd = proc[p].dd_fd
            /\ (proc[p].pc = "have" /\ proc[p].locked /\ proc'[p].dd_fd = 0)
                  => ~alive'[p]
            /\ (proc[p].pc = "close_fd" /\ proc'[p].pc = "idle")
                  => lock'[proc[p].dd_fd] # Pid(p)]_vars

\* C3 witness: a handle that was locked by dd_opendir has done dd_unlock and
\* is about to close its descriptor.
C3_Witness ==
    \E p \in Procs :
        /\ proc[p].pc = "close_fd"
        /\ proc[p].ret = "handle"
        /\ access[p] = "rw"
        /\ lock[proc[p].dd_fd] = NoLock

\* C4: the step by which dd_delete returns 0 leaves the path naming nothing
\* and the handle's directory removed, with no entry and no .lock in it.
C4_DeleteRemovesDir ==
    [][\A p \in Procs :
         (proc[p].pc = "delete_rmdir" /\ proc'[p].ret = "delete_0")
            => /\ pathDir' = 0
               /\ ~linked'[proc[p].dd_fd]
               /\ lock'[proc[p].dd_fd] = NoLock
               /\ files'[proc[p].dd_fd] = NoFiles]_vars

\* C4 witness: dd_delete returned 0 while another process is inside
\* dd_opendir on the directory that was deleted.
C4_Witness ==
    \E p, q \in Procs :
        /\ proc[p].ret = "delete_0"
        /\ proc[q].pc \in LockPcs
        /\ IsOpenCaller(proc[q].sleep_usec)
        /\ ~linked[proc[q].dd_fd]

WritePcs == {"save_create", "save_write", "delete_scan", "delete_rmdir"}

\* C5: a process is inside a writing call only with locked = TRUE, and a
\* step taken on a handle with locked = FALSE changes nothing in the
\* directory.
C5_WritableIffLocked ==
    /\ [](\A p \in Procs : proc[p].pc \in WritePcs => proc[p].locked)
    /\ [][\A p \in Procs :
            (proc[p].pc = "have" /\ ~proc[p].locked /\ proc'[p] # proc[p])
               => UNCHANGED fsvars]_vars

\* C5 witness: dd_delete was refused on an unlocked handle, and another
\* handle is in the middle of a write.
C5_Witness ==
    \E p, q \in Procs :
        /\ proc[p].ret = "delete_m1"
        /\ proc[p].pc = "have"
        /\ proc[q].pc = "save_write"

StaleTargets == {DeadPid, Junk}

C7_PlainDirIsRefused ==
    /\ [](\A p \in Procs :
            ~parse_time_file_at(1) =>
                proc[p].pc # "have" /\ proc[p].ret # "handle")
    /\ [][\A p \in Procs :
            (proc[p].pc = "unlink_backoff" /\ ~proc[p].dontwait
             /\ proc'[p].pc = "idle")
               => /\ proc'[p].ret = "null_EISDIR"
                  /\ proc[p].nacq = NO_TIME_FILE_COUNT
                  /\ lock'[proc[p].dd_fd] = NoLock]_vars
    /\ \A p \in Procs :
          (/\ proc[p].pc = "symlink" /\ access[p] = "rw" /\ ~proc[p].dontwait
           /\ ~parse_time_file_at(1))
            ~> (proc[p].pc = "idle" /\ proc[p].ret = "null_EISDIR")

\* C7 witness: the tenth .lock of one dd_opendir call is in place on a
\* directory that has no time file.
C7_Witness ==
    \E p \in Procs :
        /\ proc[p].pc = "unlink_backoff" /\ ~proc[p].dontwait
        /\ proc[p].nacq = NO_TIME_FILE_COUNT
        /\ files[1][FILENAME_TIME] = Absent

\* C8: with DD_DONT_WAIT_FOR_LOCK the first time-file miss ends the call:
\* .lock is unlinked and the call returns EISDIR after one acquisition.
C8_DontWaitFailsAtOnce ==
    /\ [](\A p \in Procs :
            (proc[p].pc \in LockPcs /\ proc[p].dontwait)
               => proc[p].nacq <= 1 /\ proc[p].count = NO_TIME_FILE_COUNT)
    /\ [][\A p \in Procs :
            (proc[p].pc = "unlink_backoff" /\ proc[p].dontwait
             /\ proc'[p] # proc[p] /\ alive'[p])
               => /\ proc'[p].pc = "idle"
                  /\ proc'[p].ret = "null_EISDIR"
                  /\ proc[p].nacq = 1
                  /\ lock'[proc[p].dd_fd] = NoLock]_vars

\* C8 witness: a dd_opendir with DD_DONT_WAIT_FOR_LOCK holds .lock and has
\* found no time file.
C8_Witness ==
    \E p \in Procs :
        /\ proc[p].pc = "unlink_backoff" /\ proc[p].dontwait
        /\ lock[proc[p].dd_fd] = Pid(p)

\* C9: as long as .lock has been held by a live peer ever since a
\* dd_opendir began, that call is still polling (symlinkat, readlinkat,
\* /proc test) and has used nothing of its NO_TIME_FILE_COUNT budget.
C9_PollsWhilePeerHolds ==
    \A p \in Procs :
        ~free[p] =>
            /\ proc[p].pc \in {"symlink", "readlink", "access"}
            /\ proc[p].count = NO_TIME_FILE_COUNT
            /\ proc[p].nacq = 0
            /\ proc[p].ret = "none"

\* C9 witness: a dd_opendir has seen the pid of a live peer in .lock, has
\* slept and is back at symlinkat, the peer still holding the lock.
C9_Witness ==
    \E p \in Procs :
        /\ ~free[p]
        /\ proc[p].pc = "symlink"
        /\ proc[p].pid_buf \in Procs
        /\ HeldByLivePeer(lock, alive, proc[p].dd_fd, p)

\* C10 as stated: once B's dd_opendir has returned, B holds a locked
\* handle, and B is never locked before time exists.
C10_OpenerAlwaysSucceeds ==
    /\ proc[2].ret # "none" => proc[2].ret = "handle" /\ proc[2].locked
    /\ proc[2].locked => files[proc[2].dd_fd][FILENAME_TIME] = Valid

\* C10 amended: B's dd_opendir returns; it returns a locked handle only
\* after A wrote time and unlinked .lock in dd_close, and otherwise NULL
\* with EISDIR after it made .lock NO_TIME_FILE_COUNT times while time was
\* not there.
C10_OpenerSucceedsOrGivesUp ==
    /\ [](proc[2].locked =>
            /\ files[proc[2].dd_fd][FILENAME_TIME] = Valid
            /\ proc[1].pc = "close_fd" \/ proc[1].ret = "closed")
    /\ [](proc[2].ret \in {"none", "handle", "null_EISDIR"})
    /\ [][(proc[2].ret = "none" /\ proc'[2].ret = "null_EISDIR")
            => /\ proc[2].nacq = NO_TIME_FILE_COUNT
               /\ files[proc[2].dd_fd][FILENAME_TIME] = Absent]_vars
    /\ <>(proc[2].ret \in {"handle", "null_EISDIR"})

\* C10 witness: B holds a locked handle, having waited for A's lock.
C10_Witness ==
    /\ proc[2].pc = "have" /\ proc[2].locked
    /\ proc[2].pid_buf = Pid(1)
    /\ proc[1].ret = "closed"

DeletePcs == {"delete_scan", "delete_rmdir"}

\* C12: dd_delete terminates.  In its rmdir loop cnt counts down from
\* RMDIR_FAIL_COUNT, one per failed rmdir, so at most RMDIR_FAIL_COUNT
\* attempts are made; the loop is left either by a successful rmdir
\* (return 0) or by the failure of attempt RMDIR_FAIL_COUNT (return -3).
C12_DeleteTerminates ==
    /\ [](proc[1].pc = "delete_rmdir" => proc[1].cnt \in 1..RMDIR_FAIL_COUNT)
    /\ [][proc[1].pc = "delete_rmdir" /\ proc'[1] # proc[1] =>
            \/ /\ proc'[1].pc = "delete_rmdir"
               /\ proc'[1].cnt = proc[1].cnt - 1
               /\ ~rmdir_ok
            \/ proc'[1].ret = "delete_0" /\ rmdir_ok
            \/ /\ proc'[1].ret = "delete_m3"
               /\ proc'[1].pc = "have"
               /\ proc[1].cnt = 1
               /\ ~rmdir_ok]_vars
    /\ (proc[1].pc \in DeletePcs) ~> (proc[1].pc \notin DeletePcs)

\* C12 witness: dd_delete has returned -3, the directory is still there.
C12_Witness ==
    /\ proc[1].ret = "delete_m3"
    /\ proc[1].pc = "have"
    /\ pathDir = 1 /\ linked[1]

\* C13: a read of an item whose file is not a regular file, or has a link
\* count greater than one, returns NULL or the empty text.
C13_LinkedItemRefused ==
    (res.call = "load" /\ (item.kind # "reg" \/ item.nlink > 1))
        => (res.null \/ res.val = <<>>)

\* The two changes C14 allows, made to text t: a single newline that ends t
\* is stripped; a newline is appended when t has one and does not end with
\* one.
StripOne(t) == SubSeq(t, 1, Len(t) - 1)
NewlineRule(t) ==
    IF t # <<>> /\ CountNl(t) = 1 /\ t[Len(t)] = NL THEN StripOne(t)
    ELSE IF CountNl(t) >= 1 /\ t[Len(t)] # NL THEN Append(t, NL)
    ELSE t

\* The part of t before its first NUL.
BeforeNul(t) ==
    LET nuls == {i \in 1..Len(t) : t[i] = NUL}
    IN IF nuls = {} THEN t
       ELSE SubSeq(t, 1, (CHOOSE i \in nuls : \A j \in nuls : i <= j) - 1)

IsKept(b) == b >= SP \/ b \in 9..13

\* A successful dd_save_text(name, data) was the last write of the item
\* and a dd_load_text has returned since.
LoadedAfterSave == res.call = "load" /\ item.by = "save"

\* C14 as stated: dd_load_text after dd_save_text(name, data) returns data
\* with the two newline changes and no other.
C14_RoundTrip ==
    LoadedAfterSave => (~res.null /\ res.val = NewlineRule(item.saved))

\* C14 amended: it returns the part of data before its first NUL, without
\* its control bytes other than white space, with the two newline changes;
\* with INT_BITS newlines or more, either change may be left out.
C14_RoundTripSanitized ==
    LoadedAfterSave =>
        LET kept == SelectSeq(BeforeNul(item.saved), IsKept)
        IN /\ ~res.null
           /\ IF CountNl(kept) < INT_BITS
              THEN res.val = NewlineRule(kept)
              ELSE \/ res.val = kept
                   \/ res.val = Append(kept, NL) /\ kept[Len(kept)] # NL
                   \/ res.val = StripOne(kept) /\ kept[Len(kept)] = NL

\* C14 witness: data with a control byte and a single final newline was
\* saved and read back without either.
C14_Witness ==
    /\ LoadedAfterSave
    /\ item.saved = <<1, 97, NL>>
    /\ res.val = <<97>>

\* The lines of a file: the texts its newlines end, and what follows the
\* last newline if anything does.
FileLines(t) ==
    [k \in 1..Cardinality(LineStarts(t)) |->
        LET i == CHOOSE s \in LineStarts(t) :
                    Cardinality({x \in LineStarts(t) : x <= s}) = k
        IN SubSeq(t, i, strchrnul(t, i) - 1)]

NoLineTwice(t) ==
    \A j, k \in 1..Len(FileLines(t)) :
        FileLines(t)[j] = FileLines(t)[k] => j = k

\* C15: a second add_reported_to with the line of the call before it
\* leaves reported_to as that call left it, and a file that
\* add_reported_to calls built has no line twice.
C15_AddIdempotent ==
    res.call = "add" =>
        /\ LET n == Len(item.lines)
           IN (n >= 2 /\ item.lines[n] = item.lines[n - 1])
                 => item.bytes = item.prev
        /\ item.by = "add" => NoLineTwice(item.bytes)

\* reported_to was absent at first, and add_reported_to calls alone wrote
\* it since; a find_in_reported_to has returned.
FoundAfterAdds ==
    /\ res.call = "find"
    /\ item.by = "add" \/ (item.kind = "none" /\ item.lines = <<>>)

\* The rest of line l after prefix p, parsed.
FieldsOf(l, p) == parse_reported_line(SubSeq(l, Len(p) + 1, Len(l)))

\* Index of the last element of sequence s that starts with p, 0 if none.
LastWith(s, p) ==
    LET ks == {k \in 1..Len(s) : HasAt(s[k], 1, p)}
    IN IF ks = {} THEN 0 ELSE CHOOSE k \in ks : \A j \in ks : j <= k

\* C16 as stated: find_in_reported_to(prefix) returns the fields of the
\* line with that prefix handed to the most recent add_reported_to call
\* that got one, and NULL when no call got one.
C16_FindLastAdded ==
    FoundAfterAdds =>
        LET k == LastWith(item.lines, res.prefix)
        IN IF k = 0 THEN res.null
           ELSE ~res.null /\ res.val = FieldsOf(item.lines[k], res.prefix)

\* The lines of the file as they are read back after the calls of h: a
\* call appends its line, less its control bytes, unless one of the lines
\* read back equals the line handed in.
RECURSIVE Appended(_)
Appended(h) ==
    IF h = <<>> THEN <<>>
    ELSE LET before == Appended(SubSeq(h, 1, Len(h) - 1))
             line == h[Len(h)]
         IN IF \E k \in 1..Len(before) : before[k] = line
            THEN before
            ELSE Append(before, SelectSeq(line, IsKept))

\* C16 amended: it returns the fields of the last line with that prefix
\* among the lines appended, read back without their control bytes; a call
\* whose line was there already appends nothing.  NULL when there is none.
C16_FindLastAppended ==
    FoundAfterAdds =>
        LET lines == Appended(item.lines)
            k == LastWith(lines, res.prefix)
        IN IF k = 0 THEN res.null
           ELSE ~res.null /\ res.val = FieldsOf(lines[k], res.prefix)

\* C16 witness: "A: URL=x", "A: URL=y" and "A: URL=x" again were added,
\* and find_in_reported_to("A: ") returned the URL y.
C16_Witness ==
    /\ FoundAfterAdds
    /\ item.lines = << PrefixA \o UrlKey \o <<120>>,
                       PrefixA \o UrlKey \o <<121>>,
                       PrefixA \o UrlKey \o <<120>> >>
    /\ res.prefix = PrefixA
    /\ ~res.null /\ res.val.url_set /\ res.val.url = <<121>>

\* t without one trailing newline, if it has one.
LessOneNl(t) ==
    IF t # <<>> /\ t[Len(t)] = NL THEN SubSeq(t, 1, Len(t) - 1) ELSE t

\* The value of a text of digit bytes.
ValueOf(t) == Normal([i \in 1..Len(t) |-> DigitOf(t[i])])

\* C17: the time file (a regular file with one link) is accepted iff its
\* content less one trailing newline is a non-empty text of digits, the
\* file is shorter than the buffer and the value is below MAX_TIME_T; the
\* value is then returned; every other content gives a negative result.
C17_TimeParser ==
    (res.call = "time" /\ item.nlink = 1) =>
        LET c == LessOneNl(item.bytes)
            accepted == /\ isdigit_cstr(c)
                        /\ Len(item.bytes) < TIME_BUF_SIZE
                        /\ DecLess(ValueOf(c), MAX_TIME_T)
        IN IF accepted THEN ~res.null /\ res.val = ValueOf(c)
           ELSE res.null

\* C18: when symlinkat of .lock fails with EACCES in dd_opendir, the call
\* returns a handle iff DD_OPEN_READONLY is set, the directory is readable
\* and its time file parses; that handle is not locked; otherwise the call
\* returns NULL; and no step of the call changes the directory.
EaccesAt(p) ==
    /\ proc[p].pc = "symlink"
    /\ IsOpenCaller(proc[p].sleep_usec)
    /\ linked[proc[p].dd_fd] /\ lock[proc[p].dd_fd] = NoLock
    /\ access[p] # "rw"

C18_ReadOnlyFallback ==
    [][\A p \in Procs :
        /\ (EaccesAt(p) /\ proc'[p] # proc[p]) =>
              IF proc[p].readonly /\ access[p] = "ro"
              THEN proc'[p].pc = "ro_check" /\ proc'[p].dd_fd = proc[p].dd_fd
              ELSE proc'[p] = NoHandle("null_EACCES")
        /\ (proc[p].pc = "ro_check" /\ proc'[p] # proc[p]) =>
              IF files[proc[p].dd_fd][FILENAME_TIME] = Valid
              THEN /\ proc'[p].pc = "have" /\ proc'[p].ret = "handle"
                   /\ proc'[p].dd_fd = proc[p].dd_fd
                   /\ ~proc'[p].locked
              ELSE proc'[p] = NoHandle("null_EACCES")
        /\ (access[p] # "rw" /\ proc'[p] # proc[p]
              /\ proc[p].pc \in LockPcs \cup {"idle", "ro_check"}) =>
              UNCHANGED fsvars
        /\ (access[p] # "rw" /\ proc[p].pc = "have") => ~proc[p].locked
      ]_vars

C18_Witness ==
    /\ access[1] = "ro"
    /\ proc[1].pc = "have" /\ proc[1].ret = "handle" /\ ~proc[1].locked
    /\ lock[1] = Pid(2) /\ proc[2].pc = "have"

\* C19: a process that reads its own pid from .lock while it tries to lock
\* terminates with a fatal error; it does not go on to sleep and try again.
C19_DoubleLockFatal ==
    [][\A p \in Procs :
        (/\ proc[p].pc = "readlink"
         /\ lock[proc[p].dd_fd] = Pid(p)
         /\ proc'[p] # proc[p])
          => proc'[p].pc = "dead" /\ ~alive'[p]
      ]_vars

\* C20: inside one dd_lock of dd_opendir the count of tries left goes down
\* only, by one, and only in the back-off that follows an acquired .lock
\* and a time file found missing or invalid; a busy answer (the .lock of a
\* live process, or our own) and a .lock that vanished before readlinkat
\* lead back to symlinkat with the count untouched, however often.
C20_BudgetOnlyForNoTime ==
    [][\A p \in Procs :
        LET s == proc[p]
            t == proc'[p]
            d == s.dd_fd
        IN (/\ s.pc \in LockPcs /\ IsOpenCaller(s.sleep_usec)
            /\ t # s) =>
             /\ t.pc \in LockPcs =>
                   \/ t.count = s.count
                   \/ /\ t.count = s.count - 1
                      /\ s.pc = "unlink_backoff" /\ t.pc = "symlink"
             /\ t.pc = "unlink_backoff" =>
                   /\ s.pc = "check_time" /\ s.nacq >= 1
                   /\ files[d][FILENAME_TIME] # Valid
             /\ (s.pc = "readlink" /\ lock[d] = NoLock) =>
                   t.pc = "symlink" /\ t.count = s.count
             /\ (s.pc = "readlink" /\ lock[d] = Pid(p)) =>
                   t.pc = "symlink" /\ t.count = s.count
             /\ (s.pc = "access" /\ s.pid_buf \in Procs /\ alive[s.pid_buf]) =>
                   t.pc = "symlink" /\ t.count = s.count
      ]_vars

\* Process 1 has used part of its tries and was told since its call began
\* that live process 2 holds the lock, which it still does.
C20_Witness ==
    /\ proc[1].pc = "symlink"
    /\ proc[1].count < NO_TIME_FILE_COUNT
    /\ proc[1].pid_buf = Pid(2) /\ alive[2]
    /\ lock[proc[1].dd_fd] = Pid(2)

\* C21: dd_lock called for dd_opendir sets locked only if time parses in
\* the step that looks at it with the symlink made, and dd_time is then the
\* value parsed, which is not negative; dd_lock called for
\* dd_create_skeleton sets locked in the step that makes the symlink,
\* whatever the time file is.
C21_CallerDecidesTimeCheck ==
    [][\A p \in Procs :
        LET s == proc[p]
            t == proc'[p]
            d == s.dd_fd
        IN /\ (s.pc \in LockPcs /\ s.sleep_usec = WAIT_FOR_OTHER_PROCESS_USLEEP
               /\ t.locked) =>
                 /\ s.pc = "check_time" /\ s.nacq >= 1
                 /\ files[d][FILENAME_TIME] = Valid
                 /\ t.dd_time = TimeStampOf(files[d][FILENAME_TIME])
                 /\ t.dd_time >= 0
           /\ (s.pc = "symlink" /\ s.sleep_usec = CREATE_LOCK_USLEEP
               /\ lock[d] = NoLock /\ lock'[d] = Pid(p)) =>
                 t.pc = "have" /\ t.locked /\ t.dd_fd = d
      ]_vars

\* A creator holds a locked handle of a directory without time file, while
\* an opener holds none although it made the symlink before.
C21_Witness ==
    /\ proc[1].pc = "have" /\ proc[1].locked
    /\ files[proc[1].dd_fd][FILENAME_TIME] = Absent
    /\ proc[1].dd_time < 0
    /\ lock[proc[1].dd_fd] = Pid(1)
    /\ proc[2].pc = "symlink" /\ proc[2].count < NO_TIME_FILE_COUNT
    /\ ~proc[2].locked

\* An opener holds a locked handle with the time stamp parsed.
C21_WitnessOpen ==
    proc[2].pc = "have" /\ proc[2].locked /\ proc[2].dd_time >= 0

\* C22: inside dd_delete the .lock is unlinked only when every entry the
\* scan returned has been dealt with, rmdir is first tried only in the step
\* that unlinked .lock, and no other entry is removed while .lock is absent.
C22_DeleteOrder ==
    [][\A p \in Procs :
        LET s == proc[p]
            t == proc'[p]
            d == s.dd_fd
        IN (s.pc = "delete_scan" /\ t # s) =>
             /\ (lock[d] # NoLock /\ lock'[d] = NoLock) =>
                   /\ s.todo = {}
                   /\ \A n \in Items : files[d][n] = Absent
             /\ t.pc = "delete_rmdir" =>
                   lock[d] = Pid(p) /\ lock'[d] = NoLock
             /\ (\E n \in Items : files'[d][n] # files[d][n]) =>
                   lock[d] = Pid(p)
      ]_vars

\* C23: an opener that made .lock and finds no valid time file does not
\* set locked and takes its .lock away before it sleeps or returns; no
\* dd_opendir returns a handle of a directory whose time file is not
\* valid; a dd_opendir that fails leaves no .lock with the pid of the
\* caller.
C23_BackOffOnMissingTime ==
    [][\A p \in Procs :
        LET s == proc[p]
            t == proc'[p]
            d == s.dd_fd
        IN (/\ s.pc \in LockPcs \cup {"ro_check"}
            /\ s.sleep_usec = WAIT_FOR_OTHER_PROCESS_USLEEP
            /\ t # s) =>
             /\ (s.pc = "check_time" /\ files[d][FILENAME_TIME] # Valid) =>
                   t.pc = "unlink_backoff" /\ ~t.locked
             /\ s.pc = "unlink_backoff" =>
                   /\ ~t.locked /\ lock'[d] # Pid(p)
                   /\ t.pc \in {"symlink", "idle", "dead"}
             /\ t.pc = "have" => files[d][FILENAME_TIME] = Valid
             /\ t.pc \in {"idle", "dead"} => lock'[d] # Pid(p)
      ]_vars

\* A deleter has removed time and .lock and tries rmdir; an opener that
\* made .lock since has backed off and left none.
C23_Witness ==
    /\ proc[1].pc = "delete_rmdir"
    /\ files[proc[1].dd_fd][FILENAME_TIME] = Absent
    /\ proc[2].pc = "symlink" /\ proc[2].dd_fd = proc[1].dd_fd
    /\ proc[2].nacq >= 1 /\ proc[2].count < NO_TIME_FILE_COUNT
    /\ lock[proc[1].dd_fd] = NoLock

\* C24: the mode of every handle returned has no bit outside 0666.
C24_ModeMasked ==
    \A p \in Procs :
        proc[p].pc = "have" =>
            BitAnd(proc[p].mode, ITEM_MODE_MASK) = proc[p].mode

\* The content of a file as C25 calls it sanitized: NUL read as a space,
\* control bytes other than white space left out.
SanitizedFile(t) ==
    SelectSeq([i \in 1..Len(t) |-> IF t[i] = NUL THEN SP ELSE t[i]], IsKept)

\* C25: loading a regular file that holds a newline and does not end with
\* one returns its sanitized content with one newline appended, however
\* many newlines it holds.
C25_LastLineTerminated ==
    (/\ res.call = "load" /\ item.kind = "reg"
     /\ CountNl(item.bytes) >= 1
     /\ item.bytes[Len(item.bytes)] # NL)
        => (~res.null /\ res.val = Append(SanitizedFile(item.bytes), NL))

\* C26: a save leaves the file that the name was linked to as it was; it
\* makes the item a regular file with one link that holds the payload;
\* on a directory it fails and writes nothing.
C26_SaveNeverWritesThrough ==
    [][(res'.call = "save" /\ <<item, res>>' # <<item, res>>) =>
        /\ item'.other = item.other
        /\ IF item.kind = "dir"
           THEN /\ res'.null
                /\ item'.kind = "dir" /\ item'.bytes = item.bytes
                /\ item'.nlink = item.nlink
           ELSE /\ ~res'.null
                /\ item'.kind = "reg" /\ item'.nlink = 1
                /\ item'.bytes = CString(item'.saved)
      ]_vars

\* A name that was linked to another file has been saved with other data.
C26_Witness ==
    /\ res.call = "save" /\ ~res.null
    /\ item.kind = "reg" /\ item.nlink = 1
    /\ item.other # <<>> /\ item.other # item.bytes

\* C27: a .lock whose target is the pid of a live process is unlinked by
\* that process only.
C27_NoLockStealing ==
    [][\A d \in Dirs :
        (/\ lock[d] \in Procs /\ alive[lock[d]]
         /\ lock'[d] = NoLock)
          => proc'[lock[d]] # proc[lock[d]]
      ]_vars

\* C28: dd_delete that returns 0 has cleared locked and closed the handle;
\* dd_delete that returns -1, -2 or -3 leaves the handle open, on the same
\* directory, with locked as it was when the call began (false for -1,
\* true for -2 and -3).
C28_DeleteFrame ==
    /\ [](\A p \in Procs : proc[p].pc \in DeletePcs => proc[p].locked)
    /\ [][\A p \in Procs :
            LET s == proc[p]
                t == proc'[p]
            IN (/\ s.pc \in DeletePcs \cup {"have"}
                /\ t # s
                /\ t.ret \in {"delete_0", "delete_m1", "delete_m2",
                               "delete_m3"}
                /\ t.pc \notin DeletePcs) =>
                 IF t.ret = "delete_0"
                 THEN t.pc = "idle" /\ ~t.locked /\ t.dd_fd = 0
                 ELSE /\ t.pc = "have" /\ t.dd_fd = s.dd_fd
                      /\ t.locked = s.locked
                      /\ t.locked = (t.ret # "delete_m1")
      ]_vars

\* dd_delete has returned -2 to a handle that is still locked.
C28_Witness ==
    /\ proc[1].pc = "have" /\ proc[1].ret = "delete_m2"
    /\ proc[1].locked /\ lock[proc[1].dd_fd] = Pid(1)

\* dd_delete has returned -1 and -3.
C28_WitnessM1 == proc[1].pc = "have" /\ proc[1].ret = "delete_m1"
C28_WitnessM3 == proc[1].pc = "have" /\ proc[1].ret = "delete_m3"

\* C29: a dd_opendir with DD_DONT_WAIT_FOR_LOCK that has found .lock held
\* by a live peer all the time has not returned and polls; the answer
\* "held by a live process" sends it back to symlinkat; it gives up with
\* EISDIR only in the back-off that follows its own .lock and a time file
\* that is not valid.
C29_DontWaitStillWaits ==
    /\ [](\A p \in Procs :
            (proc[p].dontwait /\ ~free[p]) =>
                /\ proc[p].pc \in {"symlink", "readlink", "access"}
                /\ proc[p].ret = "none")
    /\ [][\A p \in Procs :
            LET s == proc[p]
                t == proc'[p]
            IN (s.dontwait /\ s.pc \in LockPcs /\ t # s) =>
                 /\ (s.pc = "access" /\ s.pid_buf \in Procs
                        /\ alive[s.pid_buf]) =>
                       t = [s EXCEPT !.pc = "symlink"]
                 /\ t.ret = "null_EISDIR" =>
                       /\ s.pc = "unlink_backoff" /\ s.nacq >= 1
                       /\ files[s.dd_fd][FILENAME_TIME] # Valid
      ]_vars

\* A dd_opendir with DD_DONT_WAIT_FOR_LOCK has been told that a live peer
\* holds the lock and is back at symlinkat, the peer still holding it.
C29_Witness ==
    \E p \in Procs :
        /\ proc[p].dontwait /\ ~free[p]
        /\ proc[p].pc = "symlink"
        /\ proc[p].pid_buf \in Procs \ {p}
        /\ lock[proc[p].dd_fd] = proc[p].pid_buf
        /\ alive[proc[p].pid_buf]

\* C30: on a directory with a valid time file, with holders that go on to
\* dd_close and competitors that each open once, every dd_opendir that has
\* begun to lock returns a locked handle; in particular the processes
\* never all wait for ever on a .lock that no live process holds.
C30_LockProgress ==
    \A p \in Procs :
        (proc[p].pc \in LockPcs) ~>
            (proc[p].pc = "have" /\ proc[p].locked /\ proc[p].ret = "handle")

\* A dd_opendir waits on the lock a live peer holds; an earlier stale .lock
\* was removed.
C30_Witness ==
    /\ proc[2].pc = "symlink" /\ proc[2].pid_buf = Pid(1)
    /\ proc[1].pc = "have" /\ proc[1].locked
    /\ proc[1].pid_buf \in StaleTargets
    /\ lock[1] = Pid(1)

====
